---- MODULE Spec2Model ----
(***************************************************************************)
(* Royal Mini Golf Quest v2.0 (src/app.js, lines 1390-2375): the round     *)
(* state, its persistence in localStorage, the screens that decide which   *)
(* handler a user can reach, and the browser's session history, which the  *)
(* app uses for retreat.                                                   *)
(*                                                                         *)
(* Every JavaScript function is an operator from a state record to a state *)
(* record, so that a handler is the composition of the calls it makes, in  *)
(* the order it makes them.  An action applies one handler to the current  *)
(* state.                                                                  *)
(***************************************************************************)
EXTENDS Integers, Sequences, FiniteSets, TLC

VARIABLES
    currentCourse,  \* let currentCourse
    players,        \* let players: sequence of [name, scores, total]
    currentHole,    \* let currentHole: the integer part of the JS number
    holeHalf,       \* TRUE when the JS number currentHole is currentHole + 0.5
    gameStarted,    \* let gameStarted
    storage,        \* localStorage[STORAGE_KEY]
    inputs,         \* #playerInputs: the values of the name inputs, in order
    setupHidden,    \* #playerSetup has class hidden
    holePlay,       \* #holePlay has class active
    summary,        \* #summarySection has class active
    bar,            \* #mobileButtonBar has class active
    barFirst,       \* the bar was rendered with isFirstHole (Back calls goBackToSetup)
    courseButtons,  \* .courses holds the course buttons (not the course display)
    modal,          \* #scorecardModal has class active
    hist,           \* the session history: sequence of entries
    hidx,           \* the position of the current entry in hist
    pending,        \* history.back() calls whose traversal has not run yet
    log,            \* what the last handler reported (alert or console), "" if nothing
    writeFailed,    \* the last localStorage write or remove threw: storage is stale
    finished,       \* a round was finished and no round has been started since
    loaded,         \* what loadState read and returned, if the last handler called it
    winnerAnnouncement, \* #winnerAnnouncement: the winner's name, total and par text
    leaderboardContent, \* #leaderboardContent: the cards, in order
    spent           \* exploration budget used (see Budget)

vars == <<currentCourse, players, currentHole, holeHalf, gameStarted, storage,
          inputs, setupHidden, holePlay, summary, bar, barFirst, courseButtons,
          modal, hist, hidx, pending, log, writeFailed, finished, loaded,
          winnerAnnouncement, leaderboardContent, spent>>

----------------------------------------------------------------------------
(* Configuration *)

MAX_PLAYERS == 6
HOLES_COUNT == 18
NAME_MAX == 20
SCORE_MIN == 1
SCORE_MAX == 11

Courses == {"dragon", "knight"}

coursePars ==
    [c \in Courses |-> <<2, 3, 2, 3, 2, 3, 2, 3, 2, 3, 2, 3, 2, 3, 2, 3, 2, 4>>]

(* Bounds of the exploration. *)
MaxInputs == 2      \* name inputs the user keeps on the setup screen
MaxPending == 2     \* history.back() calls queued at once
Budget == 1         \* unusual events explored per behaviour (see Step)
DevHoles == {0, 1, HOLES_COUNT - 1}   \* the holes on which they are explored

----------------------------------------------------------------------------
(* JavaScript values.  null in a score slot is the marker below: a slot of *)
(* the in-memory state is null or a number that isValidScore accepted.     *)

null == -1

(* Values read from JSON keep their type in a tag. *)
Undef == [t |-> "undef"]
JNull == [t |-> "null"]
JBool(b) == [t |-> "bool", b |-> b]
JNum(n, half) == [t |-> "num", n |-> n, half |-> half]   \* n, or n + 0.5
JStr(s) == [t |-> "str", s |-> s]
JArr(a) == [t |-> "arr", a |-> a]
JPlayer(name, scores) == [t |-> "obj", name |-> name, scores |-> scores]
JSnap(course, hole, ps, gs) ==
    [t |-> "obj", course |-> course, hole |-> hole, players |-> ps, gameStarted |-> gs]

(* localStorage[STORAGE_KEY]: absent, the empty string, text that is not   *)
(* JSON, or the text of a JSON value.                                      *)
NoItem == [k |-> "none"]
EmptyText == [k |-> "empty"]
BadText == [k |-> "bad"]
JsonText(v) == [k |-> "json", v |-> v]

Truthy(v) ==
    CASE v.t = "undef" -> FALSE
      [] v.t = "null" -> FALSE
      [] v.t = "bool" -> v.b
      [] v.t = "num" -> ~(v.n = 0 /\ ~v.half)
      [] v.t = "str" -> v.s # ""
      [] OTHER -> TRUE

Min(a, b) == IF a < b THEN a ELSE b

slice(s, n) == SubSeq(s, 1, Min(Len(s), n))

RECURSIVE trimStart(_)
trimStart(s) ==
    IF Len(s) > 0 /\ SubSeq(s, 1, 1) = " " THEN trimStart(SubSeq(s, 2, Len(s))) ELSE s

RECURSIVE trimEnd(_)
trimEnd(s) ==
    IF Len(s) > 0 /\ SubSeq(s, Len(s), Len(s)) = " "
    THEN trimEnd(SubSeq(s, 1, Len(s) - 1)) ELSE s

trim(s) == trimEnd(trimStart(s))

Digits == <<"1", "2", "3", "4", "5", "6", "7", "8", "9">>

RECURSIVE SumSeq(_)
SumSeq(s) == IF s = <<>> THEN 0 ELSE Head(s) + SumSeq(Tail(s))

(* scores.filter(s => s !== null).reduce((sum, s) => sum + s, 0) *)
TotalOf(scores) == SumSeq(SelectSeq(scores, LAMBDA x: x # null))

(* parseInt(value, 10) for a string: leading blanks, an optional sign, then *)
(* the longest run of digits; NaN when there is no digit.                   *)
NaN == [nan |-> TRUE, n |-> 0]
Int10(n) == [nan |-> FALSE, n |-> n]

DigitChars == <<"0", "1", "2", "3", "4", "5", "6", "7", "8", "9">>
(* the decimal text of a natural number *)
RECURSIVE natString(_)
natString(n) == IF n < 10 THEN DigitChars[n + 1] ELSE natString(n \div 10) \o DigitChars[(n % 10) + 1]

IsDigit(c) == \E d \in 1..10 : DigitChars[d] = c
DigitVal(c) == (CHOOSE d \in 1..10 : DigitChars[d] = c) - 1

RECURSIVE digitsPrefix(_, _, _)
digitsPrefix(s, acc, any) ==
    IF Len(s) > 0 /\ IsDigit(SubSeq(s, 1, 1))
    THEN digitsPrefix(SubSeq(s, 2, Len(s)), 10 * acc + DigitVal(SubSeq(s, 1, 1)), TRUE)
    ELSE IF any THEN Int10(acc) ELSE NaN

parseInt(value) ==
    LET s == trimStart(value) IN
    IF Len(s) > 0 /\ SubSeq(s, 1, 1) = "-"
    THEN LET r == digitsPrefix(SubSeq(s, 2, Len(s)), 0, FALSE) IN
         IF r.nan THEN NaN ELSE Int10(0 - r.n)
    ELSE IF Len(s) > 0 /\ SubSeq(s, 1, 1) = "+"
    THEN digitsPrefix(SubSeq(s, 2, Len(s)), 0, FALSE)
    ELSE digitsPrefix(s, 0, FALSE)

----------------------------------------------------------------------------
(* Validation helpers *)

(* isValidCourse(course) for an in-memory course key *)
isValidCourse(course) == course \in Courses

(* isValidCourse(course) for a value read from JSON *)
isValidCourseJ(v) == v.t = "str" /\ v.s \in Courses

(* a range one wider at both ends *)
isValidScoreWide(strokes) == strokes >= SCORE_MIN - 1 /\ strokes <= SCORE_MAX + 1

(* isValidScore(strokes) for an integer *)
isValidScore(strokes) == strokes >= SCORE_MIN /\ strokes <= SCORE_MAX

(* isValidScore(s) for a value read from JSON: Number.isInteger first *)
isValidScoreJ(v) == v.t = "num" /\ ~v.half /\ isValidScore(v.n)

(* isValidPlayerIndex(idx): idx is a JS value, ps the players *)
isValidPlayerIndex(idx, ps) ==
    idx.t = "num" /\ ~idx.half /\ idx.n >= 0 /\ idx.n < Len(ps)

----------------------------------------------------------------------------
(* The session history.  An entry is the page as first opened or after     *)
(* replaceState({}, '', pathname), a hole pushed by the game, or the       *)
(* scorecard modal.                                                        *)

PageEntry == [k |-> "page", hole |-> 0, half |-> FALSE]
GameEntry(h, half) == [k |-> "game", hole |-> h, half |-> half]
ModalEntry == [k |-> "modal", hole |-> 0, half |-> FALSE]

(* history.pushState: the entries after the current one are dropped *)
pushState(s, e) ==
    [s EXCEPT !.hist = Append(SubSeq(s.hist, 1, s.hidx), e), !.hidx = s.hidx + 1]

(* history.replaceState *)
replaceState(s, e) == [s EXCEPT !.hist = [s.hist EXCEPT ![s.hidx] = e]]

(* history.back(): the traversal is queued, popstate comes later *)
historyBack(s) == [s EXCEPT !.pending = s.pending + 1]

(* window.location.hash === '#scorecards' *)
hashIsScorecards(s) == s.hist[s.hidx].k = "modal"

----------------------------------------------------------------------------
(* The state the operators below transform, read from the variables.     *)
(* effects lists, for the handler that is running, its calls of          *)
(* renderHole() and saveState() in the order it made them; it starts     *)
(* empty with every handler and is no part of the page's state.          *)
(* scorecardModalContent is what showScorecards() wrote into the modal;  *)
(* no handler reads it, so it is not kept from one handler to the next.  *)

Cur ==
    [course |-> currentCourse, players |-> players, hole |-> currentHole,
     half |-> holeHalf, started |-> gameStarted, storage |-> storage,
     inputs |-> inputs, setupHidden |-> setupHidden, holePlay |-> holePlay,
     summary |-> summary, bar |-> bar, barFirst |-> barFirst,
     buttons |-> courseButtons, modal |-> modal, hist |-> hist, hidx |-> hidx,
     pending |-> pending, log |-> log, writeFailed |-> writeFailed,
     finished |-> finished, loaded |-> loaded,
     winnerAnnouncement |-> winnerAnnouncement, leaderboardContent |-> leaderboardContent,
     effects |-> <<>>, scorecardModalContent |-> <<>>]

Becomes(s) ==
    /\ currentCourse' = s.course
    /\ players' = s.players
    /\ currentHole' = s.hole
    /\ holeHalf' = s.half
    /\ gameStarted' = s.started
    /\ storage' = s.storage
    /\ inputs' = s.inputs
    /\ setupHidden' = s.setupHidden
    /\ holePlay' = s.holePlay
    /\ summary' = s.summary
    /\ bar' = s.bar
    /\ barFirst' = s.barFirst
    /\ courseButtons' = s.buttons
    /\ modal' = s.modal
    /\ hist' = s.hist
    /\ hidx' = s.hidx
    /\ pending' = s.pending
    /\ log' = s.log
    /\ writeFailed' = s.writeFailed
    /\ finished' = s.finished
    /\ loaded' = s.loaded
    /\ winnerAnnouncement' = s.winnerAnnouncement
    /\ leaderboardContent' = s.leaderboardContent

----------------------------------------------------------------------------
(* State persistence *)

ScoreJ(x) == IF x = null THEN JNull ELSE JNum(x, FALSE)

(* the object saveState serializes: players reduced to {name, scores} *)
SnapshotOf(s) ==
    JSnap(JStr(s.course), JNum(s.hole, s.half),
          JArr([i \in 1..Len(s.players) |->
                  JPlayer(JStr(s.players[i].name),
                          JArr([j \in 1..Len(s.players[i].scores) |->
                                  ScoreJ(s.players[i].scores[j])]))]),
          JBool(s.started))

(* a save that gives the round up when the write throws *)
saveStateOrStop(s, io) ==
    IF io
    THEN [s EXCEPT !.storage = JsonText(SnapshotOf(s)), !.writeFailed = FALSE,
                   !.effects = Append(s.effects, "save")]
    ELSE [s EXCEPT !.writeFailed = TRUE, !.log = "Failed to save game state",
                   !.started = FALSE, !.bar = FALSE,
                   !.effects = Append(s.effects, "save")]

(* saveState(); io is FALSE when localStorage.setItem throws *)
saveState(s, io) ==
    IF io
    THEN [s EXCEPT !.storage = JsonText(SnapshotOf(s)), !.writeFailed = FALSE,
                   !.effects = Append(s.effects, "save")]
    ELSE [s EXCEPT !.writeFailed = TRUE, !.log = "Failed to save game state",
                   !.effects = Append(s.effects, "save")]

(* try { localStorage.removeItem(STORAGE_KEY) } catch (e) { console.error } *)
tryRemove(s, io) ==
    IF io
    THEN [s EXCEPT !.storage = NoItem, !.writeFailed = FALSE]
    ELSE [s EXCEPT !.writeFailed = TRUE, !.log = "Failed to clear localStorage"]

----------------------------------------------------------------------------
(* Rendering: only what later decides which handler runs *)

(* showCourseSelection(): the buttons, with their listeners *)
showCourseSelection(s) == [s EXCEPT !.buttons = TRUE]

(* showCourseDisplay(): the buttons are replaced by the course's name *)
showCourseDisplay(s) == [s EXCEPT !.buttons = FALSE]

(* currentHole === 0 *)
holeIsZero(s) == s.hole = 0 /\ ~s.half

(* currentHole > 0 *)
holeIsPositive(s) == s.hole > 0 \/ (s.hole = 0 /\ s.half)

(* p.scores[currentHole] === null: a fractional index reads undefined *)
slotIsNull(p, s) ==
    ~s.half /\ s.hole >= 0 /\ s.hole < Len(p.scores) /\ p.scores[s.hole + 1] = null

updateMobileButtons(s) ==
    IF ~s.started
    THEN [s EXCEPT !.bar = FALSE]
    ELSE [s EXCEPT !.bar = TRUE, !.barFirst = holeIsZero(s)]

renderHole(s) ==
    LET s1 == IF ~isValidCourse(s.course) THEN [s EXCEPT !.course = "dragon"] ELSE s
        s2 == IF s1.hole < 0 \/ s1.hole >= HOLES_COUNT
              THEN [s1 EXCEPT !.hole = 0, !.half = FALSE] ELSE s1
    IN updateMobileButtons([s2 EXCEPT !.effects = Append(s2.effects, "render")])

----------------------------------------------------------------------------
(* Scoring helpers *)

(* `+${diff}` or `${diff}` *)
signedText(diff) == IF diff > 0 THEN "+" \o natString(diff) ELSE "-" \o natString(0 - diff)

(* getScoreDescription with the eagle rule tried before the stroke count *)
getScoreDescriptionEagleFirst(strokes, par) ==
    LET diff == strokes - par IN
    IF diff <= -2 THEN [text |-> "Eagle! (" \o signedText(diff) \o ")", class |-> "eagle"]
    ELSE IF strokes = 1 THEN [text |-> "Hole in One!", class |-> "hole-in-one"]
    ELSE IF diff = -1 THEN [text |-> "Birdie! (-1)", class |-> "birdie"]
    ELSE IF diff = 0 THEN [text |-> "Par", class |-> "par"]
    ELSE IF diff = 1 THEN [text |-> "Bogey (+1)", class |-> "bogey"]
    ELSE IF diff = 2 THEN [text |-> "Double Bogey (+2)", class |-> "double-bogey"]
    ELSE [text |-> "+" \o natString(diff), class |-> "high-score"]

(* the texts are given without their pictographs *)
getScoreDescription(strokes, par) ==
    LET diff == strokes - par IN
    IF strokes = 1 THEN [text |-> "Hole in One!", class |-> "hole-in-one"]
    ELSE IF diff <= -2 THEN [text |-> "Eagle! (" \o signedText(diff) \o ")", class |-> "eagle"]
    ELSE IF diff = -1 THEN [text |-> "Birdie! (-1)", class |-> "birdie"]
    ELSE IF diff = 0 THEN [text |-> "Par", class |-> "par"]
    ELSE IF diff = 1 THEN [text |-> "Bogey (+1)", class |-> "bogey"]
    ELSE IF diff = 2 THEN [text |-> "Double Bogey (+2)", class |-> "double-bogey"]
    ELSE [text |-> "+" \o natString(diff), class |-> "high-score"]

(* the description renderHole puts on a player's card: none for an unscored slot *)
NoDescription == [text |-> "", class |-> ""]
holeDescription(s, p) ==
    IF slotIsNull(p, s) \/ s.half THEN NoDescription
    ELSE getScoreDescription(p.scores[s.hole + 1], coursePars[s.course][s.hole + 1])

(* the loop of getParDifferential: i from 0 while i <= currentHole and i < pars.length *)
holesThrough(s) == {i \in 0..(HOLES_COUNT - 1) : i <= s.hole}

playedThrough(s, p) == {i \in holesThrough(s) : i < Len(p.scores) /\ p.scores[i + 1] # null}

RECURSIVE parSum(_, _)
parSum(pars, holes) ==
    IF holes = {} THEN 0
    ELSE LET i == CHOOSE x \in holes : TRUE IN pars[i + 1] + parSum(pars, holes \ {i})

getParDifferential(s, p) ==
    IF ~isValidCourse(s.course) THEN "E"
    ELSE
    LET parTotal == parSum(coursePars[s.course], playedThrough(s, p))
        holesPlayed == Cardinality(playedThrough(s, p))
        diff == p.total - parTotal IN
    IF holesPlayed = 0 THEN "E"
    ELSE IF diff = 0 THEN "E"
    ELSE signedText(diff)

----------------------------------------------------------------------------
(* The leaderboard *)

(* a stable sort that puts a player before the players of equal total *)
RECURSIVE insertBeforeTies(_, _)
insertBeforeTies(p, sorted) ==
    IF sorted = <<>> THEN <<p>>
    ELSE IF p.total <= Head(sorted).total THEN <<p>> \o sorted
    ELSE <<Head(sorted)>> \o insertBeforeTies(p, Tail(sorted))

(* [...players].sort((a, b) => a.total - b.total): the sort is stable, so a *)
(* player goes behind the earlier players of equal total                   *)
RECURSIVE insertByTotal(_, _)
insertByTotal(p, sorted) ==
    IF sorted = <<>> THEN <<p>>
    ELSE IF p.total < Head(sorted).total THEN <<p>> \o sorted
    ELSE <<Head(sorted)>> \o insertByTotal(p, Tail(sorted))

RECURSIVE sortByTotal(_)
sortByTotal(ps) ==
    IF ps = <<>> THEN <<>>
    ELSE insertByTotal(ps[Len(ps)], sortByTotal(SubSeq(ps, 1, Len(ps) - 1)))

(* the achievements of a slot with the eagle listed first *)
slotAchievementsEagleFirst(score, par) ==
    (IF score # null /\ score - par <= -2 THEN <<"Eagle">> ELSE <<>>)
    \o (IF score = 1 THEN <<"Hole in One">> ELSE <<>>)

(* what one pass of the forEach over player.scores pushes *)
slotAchievements(score, par) ==
    (IF score = 1 THEN <<"Hole in One">> ELSE <<>>)
    \o (IF score # null /\ score - par <= -2 THEN <<"Eagle">> ELSE <<>>)

RECURSIVE achievementsFrom(_, _, _)
achievementsFrom(pars, scores, hi) ==
    IF hi > Len(scores) THEN <<>>
    ELSE slotAchievements(scores[hi], pars[hi]) \o achievementsFrom(pars, scores, hi + 1)

achievements(course, p) == achievementsFrom(coursePars[course], p.scores, 1)

(* 'E', `+${parDiff}` or `${parDiff}` *)
displayDiff(parDiff) == IF parDiff = 0 THEN "E" ELSE signedText(parDiff)

parText(diff) ==
    IF diff = 0 THEN "at par"
    ELSE IF diff > 0 THEN natString(diff) \o " over par"
    ELSE natString(0 - diff) \o " under par"

NoWinner == [name |-> "", total |-> 0, parText |-> ""]

card(course, p, totalPar) ==
    [name |-> p.name, scores |-> p.scores, total |-> p.total,
     displayDiff |-> displayDiff(p.total - totalPar),
     achievements |-> achievements(course, p)]

buildLeaderboard(s) ==
    IF Len(s.players) = 0
    THEN [s EXCEPT !.leaderboardContent = <<>>, !.log = "No players to display on leaderboard"]
    ELSE IF ~isValidCourse(s.course) THEN [s EXCEPT !.log = "Invalid course for leaderboard"]
    ELSE
    LET sorted == sortByTotal(s.players)
        totalPar == SumSeq(coursePars[s.course])
        winner == sorted[1]
    IN [s EXCEPT !.winnerAnnouncement = [name |-> winner.name, total |-> winner.total,
                                         parText |-> parText(winner.total - totalPar)],
                 !.leaderboardContent = [i \in 1..Len(sorted) |-> card(s.course, sorted[i], totalPar)]]

----------------------------------------------------------------------------
(* Player setup *)

(* addPlayer without its limit *)
addPlayerUncapped(s) == [s EXCEPT !.inputs = Append(s.inputs, "")]

addPlayer(s) ==
    IF Len(s.inputs) >= MAX_PLAYERS
    THEN [s EXCEPT !.log = "Maximum 6 players allowed"]
    ELSE [s EXCEPT !.inputs = Append(s.inputs, "")]

removePlayer(s, i) ==
    IF Len(s.inputs) <= 1
    THEN [s EXCEPT !.log = "At least one player required"]
    ELSE [s EXCEPT !.inputs = SubSeq(s.inputs, 1, i - 1) \o SubSeq(s.inputs, i + 1, Len(s.inputs))]

(* (input.value.trim() || `Player ${i + 1}`).slice(0, 20), i counted from 1 here *)
playerName(value, i) ==
    slice(IF trim(value) # "" THEN trim(value) ELSE "Player " \o Digits[i], NAME_MAX)

newPlayer(value, i) ==
    [name |-> playerName(value, i), scores |-> [h \in 1..HOLES_COUNT |-> null], total |-> 0]

----------------------------------------------------------------------------
(* Game flow *)

(* a start that reuses the score rows of the players left from the last round *)
startGameKeepsScores(s, io) ==
    IF Len(s.inputs) = 0
    THEN [s EXCEPT !.log = "Add at least one player"]
    ELSE
    LET s1 == [s EXCEPT !.players = [i \in 1..Len(s.inputs) |->
                  IF i <= Len(s.players)
                  THEN [s.players[i] EXCEPT !.name = playerName(s.inputs[i], i)]
                  ELSE newPlayer(s.inputs[i], i)]]
        s2 == IF ~isValidCourse(s1.course) THEN [s1 EXCEPT !.course = "dragon"] ELSE s1
        s3 == [s2 EXCEPT !.started = TRUE, !.hole = 0, !.half = FALSE, !.finished = FALSE]
        s4 == [showCourseDisplay(s3) EXCEPT !.setupHidden = TRUE, !.holePlay = TRUE]
        s5 == pushState(s4, GameEntry(0, FALSE))
    IN saveState(updateMobileButtons(renderHole(s5)), io)

startGame(s, io) ==
    IF Len(s.inputs) = 0
    THEN [s EXCEPT !.log = "Add at least one player"]
    ELSE
    LET s1 == [s EXCEPT !.players = [i \in 1..Len(s.inputs) |-> newPlayer(s.inputs[i], i)]]
        s2 == IF ~isValidCourse(s1.course) THEN [s1 EXCEPT !.course = "dragon"] ELSE s1
        s3 == [s2 EXCEPT !.started = TRUE, !.hole = 0, !.half = FALSE, !.finished = FALSE]
        s4 == [showCourseDisplay(s3) EXCEPT !.setupHidden = TRUE, !.holePlay = TRUE]
        s5 == pushState(s4, GameEntry(0, FALSE))
    IN saveState(updateMobileButtons(renderHole(s5)), io)

(* the slot written, the total left as it was *)
setScoreStaleTotal(p, s, strokes) ==
    [p EXCEPT !.scores = [p.scores EXCEPT ![s.hole + 1] = strokes]]

(* players[playerIdx].scores[currentHole] = strokes, then the total *)
setScore(p, s, strokes) ==
    LET sc == IF ~s.half /\ s.hole >= 0 /\ s.hole < Len(p.scores)
              THEN [p.scores EXCEPT ![s.hole + 1] = strokes]
              ELSE p.scores
    IN [p EXCEPT !.scores = sc, !.total = TotalOf(sc)]

updateScore(s, playerIdx, value, io) ==
    LET strokes == parseInt(value) IN
    IF strokes.nan THEN s
    ELSE IF ~isValidPlayerIndex(playerIdx, s.players)
    THEN [s EXCEPT !.log = "Invalid player index"]
    ELSE IF ~isValidScore(strokes.n)
    THEN [s EXCEPT !.log = "Invalid score value"]
    ELSE IF ~isValidCourse(s.course)
    THEN [s EXCEPT !.log = "Invalid course"]
    ELSE
    LET i == playerIdx.n + 1
        s1 == [s EXCEPT !.players[i] = setScore(s.players[i], s, strokes.n)]
    IN saveState(renderHole(s1), io)

previousHole(s) == IF holeIsPositive(s) THEN historyBack(s) ELSE s

(* endGame without the removal of the stored snapshot *)
endGameKeepsStorage(s, io) ==
    buildLeaderboard(
        replaceState([s EXCEPT !.started = FALSE, !.holePlay = FALSE, !.summary = TRUE,
                               !.bar = FALSE, !.finished = TRUE], PageEntry))

endGame(s, io) ==
    LET s1 == [s EXCEPT !.started = FALSE, !.holePlay = FALSE, !.summary = TRUE,
                        !.bar = FALSE, !.finished = TRUE]
    IN tryRemove(buildLeaderboard(replaceState(s1, PageEntry)), io)

(* nextHole without its check of the current hole's slots *)
nextHoleUnchecked(s, io) ==
    IF s.hole < HOLES_COUNT - 1
    THEN LET s1 == [s EXCEPT !.hole = s.hole + 1]
             s2 == pushState(s1, GameEntry(s1.hole, s1.half))
         IN saveState(renderHole(s2), io)
    ELSE endGame(s, io)

nextHole(s, io) ==
    IF \E i \in 1..Len(s.players) : slotIsNull(s.players[i], s)
    THEN [s EXCEPT !.log = "Enter scores for all players"]
    ELSE IF s.hole < HOLES_COUNT - 1
    THEN LET s1 == [s EXCEPT !.hole = s.hole + 1]
             s2 == pushState(s1, GameEntry(s1.hole, s1.half))
         IN saveState(renderHole(s2), io)
    ELSE endGame(s, io)

(* a return to the setup screen that leaves the stored round in place *)
goBackToSetupKeepsStorage(s, io) ==
    LET s1 == showCourseSelection([s EXCEPT !.started = FALSE, !.bar = FALSE, !.holePlay = FALSE])
    IN [s1 EXCEPT !.setupHidden = FALSE]

goBackToSetup(s, io) ==
    LET s1 == [s EXCEPT !.started = FALSE, !.bar = FALSE, !.holePlay = FALSE]
        s2 == [showCourseSelection(s1) EXCEPT !.setupHidden = FALSE]
        s3 == IF Len(s2.players) > 0
              THEN [s2 EXCEPT !.inputs = [i \in 1..Len(s2.players) |-> s2.players[i].name]]
              ELSE s2
    IN tryRemove(replaceState(s3, PageEntry), io)

----------------------------------------------------------------------------
(* The scorecard modal *)

(* sorted.findIndex(p => p.name === name): the first entry of that name, *)
(* counted from 0, or -1                                                 *)
RECURSIVE findIndexByNameFrom(_, _, _)
findIndexByNameFrom(sorted, name, k) ==
    IF k > Len(sorted) THEN -1
    ELSE IF sorted[k].name = name THEN k - 1
    ELSE findIndexByNameFrom(sorted, name, k + 1)

(* the rank in a scorecard's heading *)
rankByName(sorted, ps, i) == findIndexByNameFrom(sorted, ps[i].name, 1) + 1

(* the scorecards, in list order: the heading's rank and name, and the   *)
(* total of the total row                                                *)
scorecards(s) ==
    LET sorted == sortByTotal(s.players) IN
    [i \in 1..Len(s.players) |->
        [rank |-> rankByName(sorted, s.players, i),
         name |-> s.players[i].name,
         total |-> s.players[i].total]]

showScorecards(s) ==
    IF Len(s.players) = 0 THEN [s EXCEPT !.scorecardModalContent = <<>>]
    ELSE IF ~isValidCourse(s.course) THEN [s EXCEPT !.log = "Invalid course for scorecards"]
    ELSE pushState([s EXCEPT !.scorecardModalContent = scorecards(s), !.modal = TRUE],
                   ModalEntry)

hideScorecards(s) ==
    LET s1 == [s EXCEPT !.modal = FALSE]
    IN IF hashIsScorecards(s1) THEN historyBack(s1) ELSE s1

----------------------------------------------------------------------------
(* Quit and new game *)

resetGame(s) ==
    LET s1 == [s EXCEPT !.course = "dragon", !.hole = 0, !.half = FALSE,
                        !.players = <<>>, !.started = FALSE, !.bar = FALSE]
        s2 == [showCourseSelection(s1) EXCEPT !.setupHidden = FALSE, !.holePlay = FALSE,
                                              !.summary = FALSE]
    IN [s2 EXCEPT !.inputs = <<"", "">>]

(* localStorage.removeItem is not guarded here: when it throws, the handler ends *)
quitGame(s, io) ==
    IF io THEN resetGame([s EXCEPT !.storage = NoItem, !.writeFailed = FALSE])
    ELSE [s EXCEPT !.writeFailed = TRUE, !.log = "Uncaught exception"]

(* a new game that keeps the round's course and players *)
newGameKeepsRound(s, io) ==
    IF io THEN [resetGame([s EXCEPT !.storage = NoItem, !.writeFailed = FALSE])
                   EXCEPT !.course = s.course, !.players = s.players]
    ELSE [s EXCEPT !.writeFailed = TRUE, !.log = "Uncaught exception"]

newGame(s, io) ==
    IF io THEN resetGame([s EXCEPT !.storage = NoItem, !.writeFailed = FALSE])
    ELSE [s EXCEPT !.writeFailed = TRUE, !.log = "Uncaught exception"]

----------------------------------------------------------------------------
(* Loading *)

(* a key of the parsed value: undefined when the value has no such key *)
Field(v, f) == IF v.t = "obj" /\ f \in DOMAIN v THEN v[f] ELSE Undef

(* String(p.name) *)
jsString(v) ==
    CASE v.t = "str" -> v.s
      [] v.t = "num" /\ ~v.half /\ v.n >= 0 -> natString(v.n)
      [] v.t = "num" /\ ~v.half /\ v.n < 0 -> "-" \o natString(0 - v.n)
      [] v.t = "num" /\ v.half /\ v.n >= 0 -> natString(v.n) \o ".5"
      [] v.t = "num" /\ v.half /\ v.n < 0 -> "-" \o natString((0 - v.n) - 1) \o ".5"
      [] v.t = "bool" -> IF v.b THEN "true" ELSE "false"
      [] OTHER -> "[object Object]"

(* the three checks that discard the whole snapshot *)
courseOK(v) == isValidCourseJ(Field(v, "course"))
playersOK(v) == Field(v, "players").t = "arr" /\ Len(Field(v, "players").a) > 0
holeOK(v) ==
    LET hole == Field(v, "hole") IN
    hole.t = "num" /\ ~(hole.n < 0) /\ ~(hole.n >= HOLES_COUNT)

(* loadState() returns true *)
loadAccepts(raw) ==
    /\ raw.k = "json"
    /\ raw.v.t # "null"
    /\ courseOK(raw.v) /\ playersOK(raw.v) /\ holeOK(raw.v)

(* a load that refuses the highest score *)
loadedScoreBelowMax(v) ==
    IF v.t # "null" /\ isValidScoreJ(v) /\ v.n < SCORE_MAX THEN v.n ELSE null

(* a load that keeps no score *)
loadedScoreDropped(v) == null

(* a load that keeps any stored number *)
loadedScoreUnchecked(v) == IF v.t = "num" THEN v.n ELSE null

(* (s !== null && isValidScore(s)) ? s : null *)
loadedScore(v) == IF v.t # "null" /\ isValidScoreJ(v) THEN v.n ELSE null

(* a load that keeps a scores array of any length *)
loadedPlayerAnyLength(p) ==
    LET name == IF Truthy(p) /\ Truthy(Field(p, "name"))
                THEN slice(jsString(Field(p, "name")), NAME_MAX) ELSE "Player"
        raw == Field(p, "scores")
        scores == IF Truthy(p) /\ raw.t = "arr"
                  THEN [h \in 1..Len(raw.a) |-> loadedScore(raw.a[h])]
                  ELSE [h \in 1..HOLES_COUNT |-> null]
    IN [name |-> name, scores |-> scores, total |-> TotalOf(scores)]

(* a load that believes the stored total *)
loadedPlayerStoredTotal(p) ==
    LET name == IF Truthy(p) /\ Truthy(Field(p, "name"))
                THEN slice(jsString(Field(p, "name")), NAME_MAX) ELSE "Player"
        raw == Field(p, "scores")
        scores == IF Truthy(p) /\ raw.t = "arr" /\ Len(raw.a) = HOLES_COUNT
                  THEN [h \in 1..HOLES_COUNT |-> loadedScore(raw.a[h])]
                  ELSE [h \in 1..HOLES_COUNT |-> null]
    IN [name |-> name, scores |-> scores,
        total |-> IF Field(p, "total").t = "num" THEN Field(p, "total").n ELSE TotalOf(scores)]

loadedPlayer(p) ==
    LET name == IF Truthy(p) /\ Truthy(Field(p, "name"))
                THEN slice(jsString(Field(p, "name")), NAME_MAX) ELSE "Player"
        raw == Field(p, "scores")
        scores == IF Truthy(p) /\ raw.t = "arr" /\ Len(raw.a) = HOLES_COUNT
                  THEN [h \in 1..HOLES_COUNT |-> loadedScore(raw.a[h])]
                  ELSE [h \in 1..HOLES_COUNT |-> null]
    IN [name |-> name, scores |-> scores, total |-> TotalOf(scores)]

NoLoad == [k |-> "no"]
Loaded(raw, ret) == [k |-> "load", raw |-> raw, ret |-> ret]

(* gameStarted = gs keeps the stored value; the code only ever tests it, so *)
(* the state holds its truth value.                                        *)
loadState(s, io) ==
    LET raw == s.storage IN
    IF raw.k = "none" \/ raw.k = "empty" THEN [s EXCEPT !.loaded = Loaded(raw, FALSE)]
    ELSE IF ~loadAccepts(raw)
    THEN tryRemove([s EXCEPT !.log = "Invalid saved state", !.loaded = Loaded(raw, FALSE)], io)
    ELSE
    LET v == raw.v
        s1 == [s EXCEPT !.loaded = Loaded(raw, TRUE),
                        !.course = Field(v, "course").s,
                        !.started = Truthy(Field(v, "gameStarted"))]
        s2 == IF s1.started THEN showCourseDisplay(s1) ELSE showCourseSelection(s1)
        ps == Field(v, "players").a
        s3 == [s2 EXCEPT !.players = [i \in 1..Len(ps) |-> loadedPlayer(ps[i])],
                         !.setupHidden = TRUE, !.holePlay = TRUE,
                         !.hole = Field(v, "hole").n, !.half = Field(v, "hole").half]
        s4 == replaceState(s3, GameEntry(s3.hole, s3.half))
    IN updateMobileButtons(renderHole(s4))

(* The page as the script finds it: the module's initial values and the    *)
(* markup of the setup screen (two empty name inputs, as resetGame writes). *)
FreshPage(store, h, i, fin) ==
    [course |-> "dragon", players |-> <<>>, hole |-> 0, half |-> FALSE,
     started |-> FALSE, storage |-> store, inputs |-> <<"", "">>,
     setupHidden |-> FALSE, holePlay |-> FALSE, summary |-> FALSE, bar |-> FALSE,
     barFirst |-> FALSE, buttons |-> TRUE, modal |-> FALSE, hist |-> h, hidx |-> i,
     pending |-> 0, log |-> "", writeFailed |-> FALSE, finished |-> fin,
     loaded |-> NoLoad, winnerAnnouncement |-> NoWinner, leaderboardContent |-> <<>>,
     effects |-> <<>>, scorecardModalContent |-> <<>>]

(* DOMContentLoaded: if (!loadState()) showCourseSelection(); updateMobileButtons() *)
domContentLoaded(s, io) ==
    LET s1 == loadState(s, io)
        s2 == IF loadAccepts(s.storage) THEN s1 ELSE showCourseSelection(s1)
    IN updateMobileButtons(s2)

----------------------------------------------------------------------------
(* Events *)

(* the listener without its saveState() *)
popstateUnsaved(s, io) ==
    IF s.modal THEN [s EXCEPT !.modal = FALSE]
    ELSE IF s.started
    THEN IF holeIsZero(s) THEN goBackToSetup(s, io)
         ELSE renderHole([s EXCEPT !.hole = s.hole - 1])
    ELSE s

(* the popstate listener *)
popstate(s, io) ==
    IF s.modal THEN [s EXCEPT !.modal = FALSE]
    ELSE IF s.started
    THEN IF holeIsZero(s) THEN goBackToSetup(s, io)
         ELSE saveState(renderHole([s EXCEPT !.hole = s.hole - 1]), io)
    ELSE s

(* A traversal by delta: without a target entry nothing happens in the page *)
traverse(s, delta, io) ==
    IF s.hidx + delta < 1 \/ s.hidx + delta > Len(s.hist) THEN s
    ELSE popstate([s EXCEPT !.hidx = s.hidx + delta], io)

(* the keydown listener *)
keydown(s, key, io) ==
    IF ~s.started THEN s
    ELSE CASE key = "ArrowLeft" -> previousHole(s)
           [] key = "ArrowRight" ->
                IF \A i \in 1..Len(s.players) : ~slotIsNull(s.players[i], s)
                THEN nextHole(s, io) ELSE s
           [] key = "s" -> showScorecards(s)
           [] key = "Escape" -> hideScorecards(s)
           [] OTHER -> s

(* a course button whose listener does not look at gameStarted *)
courseClickAlways(s, c, io) == saveState([s EXCEPT !.course = c], io)

(* a click on a course button *)
courseClick(s, c, io) ==
    IF s.started THEN s ELSE saveState([s EXCEPT !.course = c], io)

----------------------------------------------------------------------------
(* What the environment does *)

NameInputs == {"", "Amy", " Bo "}
DefaultValue == "3"
ValueInputs == {"", "0", "1", "2", "3", "11", "12", "2.5"}
IndexInputs ==
    {JNum(i, FALSE) : i \in -1..MaxInputs} \cup {JNum(0, TRUE), JStr("0")}
Keys == {"ArrowLeft", "ArrowRight", "s", "Escape"}

(* The user does something unusual (a retreat, a direct call, the modal,  *)
(* quitting, reloading, a storage failure) only on these holes.            *)
Unusual == ~holePlay \/ currentHole \in DevHoles

(* what a handler reports when a storage call threw *)
(* what the handlers pass to showToast *)
ToastMessages ==
    {"Maximum 6 players allowed", "At least one player required",
     "Add at least one player", "Enter scores for all players"}

FailureLogs ==
    {"Failed to save game state", "Failed to clear localStorage", "Uncaught exception"}
Threw(t) == t.log \in FailureLogs

(* A step to state t.  cost is 1 for the events counted against Budget; a  *)
(* step in which a storage call throws counts, and so does a user event    *)
(* that overtakes a queued traversal.                                      *)
Charged(t, c) ==
    /\ spent + c <= Budget
    /\ spent' = spent + c
    /\ t.pending <= MaxPending
    /\ Becomes(t)

Step(t, cost) ==
    /\ spent + cost <= Budget
    /\ Charged(t, IF Threw(t) \/ pending > 0 THEN 1 ELSE cost)

(* the outcomes of a storage call: it works, or it throws *)
IO == IF spent < Budget /\ Unusual THEN BOOLEAN ELSE {TRUE}

(* Every handler starts with nothing reported. *)
Start == [Cur EXCEPT !.log = "", !.loaded = NoLoad]

CourseClick ==
    \E c \in Courses, io \in IO :
        /\ courseButtons
        /\ Step(courseClick(Start, c, io), 1)

TypeName ==
    \E i \in 1..Len(inputs), name \in NameInputs :
        /\ ~setupHidden
        /\ name # inputs[i]
        /\ Step([Start EXCEPT !.inputs[i] = name], 1)

AddPlayer ==
    /\ ~setupHidden
    /\ Step(addPlayer(Start), 0)

RemovePlayer ==
    \E i \in 1..Len(inputs) :
        /\ ~setupHidden
        /\ Step(removePlayer(Start, i), 0)

(* a second round in the same tab counts against Budget *)
StartGame ==
    \E io \in IO :
        /\ ~setupHidden
        /\ Step(startGame(Start, io), IF Len(hist) = 1 THEN 0 ELSE 1)

(* a choice in a player's select, or a direct call of updateScore *)
UpdateScore ==
    \E idx \in IndexInputs, value \in ValueInputs :
        LET cost == IF value = DefaultValue /\ isValidPlayerIndex(idx, players)
                    THEN 0 ELSE 1 IN
        \E io \in IO :
            /\ holePlay /\ ~modal
            /\ cost = 1 => Unusual
            /\ spent + cost <= Budget
            /\ Step(updateScore(Start, idx, value, io), cost)

(* the Next button; the call is made even where the button is rendered disabled *)
NextClick ==
    LET cost == IF \E i \in 1..Len(players) : slotIsNull(players[i], Cur)
                THEN 1 ELSE 0 IN
    \E io \in IO :
        /\ bar /\ ~modal
        /\ cost = 1 => Unusual
        /\ Step(nextHole(Start, io), cost)

(* the Back / Previous button, as updateMobileButtons rendered it *)
BackClick ==
    \E io \in IO :
        /\ bar /\ ~modal
        /\ Unusual
        /\ IF barFirst
           THEN Step(goBackToSetup(Start, io), 0)
           ELSE Step(previousHole(Start), 0)

ScoresClick ==
    /\ bar /\ ~modal
    /\ Unusual
    /\ Step(showScorecards(Start), 1)

(* the modal's close button *)
CloseClick ==
    /\ modal
    /\ Step(hideScorecards(Start), 0)

KeyDown ==
    \E key \in Keys, io \in IO :
        /\ key \in {"s", "ArrowLeft"} => Unusual
        /\ Step(keydown(Start, key, io), IF key = "s" THEN 1 ELSE 0)

(* a queued history.back() runs *)
HistoryTask ==
    \E io \in IO :
        /\ pending > 0
        /\ LET t == traverse([Start EXCEPT !.pending = pending - 1], -1, io) IN
           Charged(t, IF Threw(t) THEN 1 ELSE 0)

(* the browser's own back and forward buttons *)
BrowserBack ==
    \E io \in IO :
        /\ hidx > 1
        /\ modal \/ Unusual
        /\ Step(traverse(Start, -1, io), IF modal \/ gameStarted THEN 0 ELSE 1)

BrowserForward ==
    \E io \in IO :
        /\ hidx < Len(hist)
        /\ Unusual
        /\ Step(traverse(Start, 1, io), 1)

Resize == Step(updateMobileButtons(Start), 0)

(* the Quit button of the hole view, confirmed *)
ConfirmQuit ==
    \E io \in IO :
        /\ holePlay
        /\ Unusual
        /\ Step(quitGame(Start, io), 1)

(* the New Game button of the summary *)
NewGame ==
    \E io \in IO :
        /\ summary
        /\ Step(newGame(Start, io), 0)

(* The page is loaded again: in the same tab the session history is kept,  *)
(* in a new tab it holds the one entry of the page.                        *)
Reload ==
    \E sameTab \in BOOLEAN :
        /\ Unusual
        /\ Step(domContentLoaded(
                    IF sameTab THEN FreshPage(storage, hist, hidx, finished)
                    ELSE FreshPage(storage, <<PageEntry>>, 1, finished), TRUE), 1)

(* The page opened in a new tab with the store as given. *)
Opened(store) == domContentLoaded(FreshPage(store, <<PageEntry>>, 1, FALSE), TRUE)

Is(s) ==
    /\ currentCourse = s.course
    /\ players = s.players
    /\ currentHole = s.hole
    /\ holeHalf = s.half
    /\ gameStarted = s.started
    /\ storage = s.storage
    /\ inputs = s.inputs
    /\ setupHidden = s.setupHidden
    /\ holePlay = s.holePlay
    /\ summary = s.summary
    /\ bar = s.bar
    /\ barFirst = s.barFirst
    /\ courseButtons = s.buttons
    /\ modal = s.modal
    /\ hist = s.hist
    /\ hidx = s.hidx
    /\ pending = s.pending
    /\ log = s.log
    /\ writeFailed = s.writeFailed
    /\ finished = s.finished
    /\ loaded = s.loaded
    /\ winnerAnnouncement = s.winnerAnnouncement
    /\ leaderboardContent = s.leaderboardContent

Init ==
    /\ spent = 0
    /\ Is(Opened(NoItem))

Next ==
    \/ CourseClick
    \/ Len(inputs) < MaxInputs /\ AddPlayer
    \/ RemovePlayer
    \/ TypeName
    \/ StartGame
    \/ UpdateScore
    \/ NextClick
    \/ BackClick
    \/ ScoresClick
    \/ CloseClick
    \/ KeyDown
    \/ HistoryTask
    \/ BrowserBack
    \/ BrowserForward
    \/ Resize
    \/ ConfirmQuit
    \/ NewGame
    \/ Reload

Spec == Init /\ [][Next]_vars

----------------------------------------------------------------------------
(* The page opened on a stored value the app did not necessarily write.    *)
(* The samples vary one key of a snapshot at a time.                       *)

LongName == "ABCDEFGHIJKLMNOPQRST"

GoodScores(h) == [j \in 1..HOLES_COUNT |-> IF j <= h THEN JNum(3, FALSE) ELSE JNull]
GoodPlayers(h) == JArr(<<JPlayer(JStr("Amy"), JArr(GoodScores(h)))>>)
GoodSnap(h) == JSnap(JStr("dragon"), JNum(h, FALSE), GoodPlayers(h), JBool(TRUE))

OddScores ==
    [j \in 1..HOLES_COUNT |->
        CASE j = 1 -> JNum(15, FALSE)
          [] j = 2 -> JNum(0, FALSE)
          [] j = 3 -> JNum(2, TRUE)
          [] j = 4 -> JStr("3")
          [] j = 5 -> JNum(11, FALSE)
          [] j = 6 -> JNum(1, FALSE)
          [] j = 7 -> JBool(TRUE)
          [] OTHER -> JNull]

OddPlayers ==
    JArr(<<[t |-> "obj", name |-> JStr(LongName \o "U"), scores |-> JArr(OddScores),
            total |-> JNum(99, FALSE)],
           JNull,
           JPlayer(JNum(7, FALSE), JArr(<<JNum(3, FALSE)>>)),
           [t |-> "obj"],
           JStr("x")>>)

CourseSamples == {JStr("knight"), JStr("castle"), JStr(""), JNum(1, FALSE), JNull}
HoleSamples ==
    {JNum(0, FALSE), JNum(HOLES_COUNT - 1, FALSE), JNum(HOLES_COUNT, FALSE),
     JNum(25, FALSE), JNum(-1, FALSE), JNum(-1, TRUE), JNum(0, TRUE), JNum(2, TRUE),
     JNum(HOLES_COUNT - 1, TRUE), JStr("3"), JNull}
(* two well-formed players, the first with slots a round never writes *)
MixedPlayers ==
    JArr(<<JPlayer(JStr("Bo"), JArr(OddScores)), JPlayer(JStr("Amy"), JArr(GoodScores(2)))>>)
(* a player stored with a total that is not the sum of the slots *)
StaleTotalPlayers ==
    JArr(<<[t |-> "obj", name |-> JStr("Bo"), scores |-> JArr(OddScores),
            total |-> JNum(99, FALSE)]>>)
PlayersSamples == {OddPlayers, MixedPlayers, JArr(<<>>), JStr("Amy"), JNull, JNum(2, FALSE)}
StartedSamples == {JBool(FALSE), JNull, JNum(1, FALSE)}

RawSamples ==
    {NoItem, EmptyText, BadText, JsonText(JNull), JsonText(JNum(5, FALSE)),
     JsonText(JArr(<<>>)), JsonText(GoodSnap(1))}
    \cup {JsonText([GoodSnap(1) EXCEPT !.course = c]) : c \in CourseSamples}
    \cup {JsonText([GoodSnap(2) EXCEPT !.hole = h]) : h \in HoleSamples}
    \cup {JsonText([GoodSnap(1) EXCEPT !.players = ps]) : ps \in PlayersSamples}
    \cup {JsonText([GoodSnap(1) EXCEPT !.gameStarted = gs]) : gs \in StartedSamples}
    \cup {JsonText([GoodSnap(2) EXCEPT !.players = StaleTotalPlayers, !.hole = JNum(4, FALSE)])}
    \cup {JsonText([t |-> "obj", hole |-> JNum(1, FALSE), players |-> GoodPlayers(1),
                    gameStarted |-> JBool(TRUE)]),
          JsonText([t |-> "obj", course |-> JStr("dragon"), players |-> GoodPlayers(1),
                    gameStarted |-> JBool(TRUE)]),
          JsonText([t |-> "obj", course |-> JStr("dragon"), hole |-> JNum(1, FALSE),
                    gameStarted |-> JBool(TRUE)]),
          JsonText([t |-> "obj", course |-> JStr("dragon"), hole |-> JNum(1, FALSE),
                    players |-> GoodPlayers(1)])}

InitLoad ==
    /\ spent = Budget
    /\ \E raw \in RawSamples : Is(Opened(raw))

(* after the load, the round is played the usual way *)
NextLoad ==
    \/ Len(inputs) < MaxInputs /\ AddPlayer
    \/ RemovePlayer
    \/ StartGame
    \/ UpdateScore
    \/ NextClick
    \/ BackClick
    \/ KeyDown
    \/ HistoryTask
    \/ BrowserBack
    \/ Resize
    \/ NewGame

SpecLoad == InitLoad /\ [][NextLoad]_vars

----------------------------------------------------------------------------
(* saveState and loadState applied to round states drawn from bounded sets *)

UnscoredRow == [h \in 1..HOLES_COUNT |-> null]
ThreesRow == [h \in 1..HOLES_COUNT |-> 3]
MixedRow ==
    [h \in 1..HOLES_COUNT |->
        CASE h = 1 -> SCORE_MIN
          [] h = 2 -> SCORE_MAX
          [] h = HOLES_COUNT -> SCORE_MAX
          [] h % 3 = 0 -> null
          [] OTHER -> 2]

PlayerOf(name, row) == [name |-> name, scores |-> row, total |-> TotalOf(row)]

PlayerLists ==
    LET a == PlayerOf("A", UnscoredRow)
        b == PlayerOf(LongName, MixedRow)
        c == PlayerOf("7", ThreesRow)
    IN {<<a>>, <<b>>, <<c>>, <<a, b>>, <<b, a>>, <<c, c>>, <<a, b, c, c, b, a>>}

RoundHoles == {0, 9, HOLES_COUNT - 1}

(* the hole view showing the round (c, h, gs, ps), nothing stored *)
InRound(c, h, gs, ps) ==
    updateMobileButtons(
        [FreshPage(NoItem, <<PageEntry>>, 1, FALSE) EXCEPT
            !.course = c, !.hole = h, !.started = gs, !.players = ps,
            !.setupHidden = TRUE, !.holePlay = TRUE, !.buttons = ~gs])

InitRoundTrip ==
    /\ spent = 0
    /\ \E c \in Courses, h \in RoundHoles, gs \in BOOLEAN, ps \in PlayerLists :
           Is(InRound(c, h, gs, ps))

SaveNow == Charged(saveState(Start, TRUE), 0)

LoadNow == Charged(Opened(storage), 0)

NextRoundTrip == SaveNow \/ LoadNow

SpecRoundTrip == InitRoundTrip /\ [][NextRoundTrip]_vars

----------------------------------------------------------------------------
(* The setup screen with up to MAX_PLAYERS name inputs.  A behaviour begins *)
(* on a fresh page with names typed in, or on the summary of a finished    *)
(* round; rounds are started, scored on the first hole and left again.     *)

TypedNames == {<<"", "">>, <<"Amy", " Bo ">>, <<"Amy", "Amy">>}

(* the summary of a one-player round in which every hole took three strokes *)
FinishedRound ==
    LET s0 == startGame([Opened(NoItem) EXCEPT !.inputs = <<"Amy">>], TRUE)
        s1 == [s0 EXCEPT !.players[1].scores = [h \in 1..HOLES_COUNT |-> 3],
                         !.players[1].total = 3 * HOLES_COUNT,
                         !.hole = HOLES_COUNT - 1,
                         !.hist = s0.hist \o [h \in 1..(HOLES_COUNT - 1) |-> GameEntry(h, FALSE)],
                         !.hidx = s0.hidx + HOLES_COUNT - 1]
    IN endGame(renderHole(s1), TRUE)

InitSetup ==
    /\ spent = 0
    /\ \/ \E names \in TypedNames : Is([Opened(NoItem) EXCEPT !.inputs = names])
       \/ Is(FinishedRound)

(* the first player without a score on the current hole chooses the default *)
ScoreInTurn ==
    \E i \in 1..Len(players) :
        /\ holePlay /\ ~modal
        /\ slotIsNull(players[i], Cur)
        /\ \A j \in 1..(i - 1) : ~slotIsNull(players[j], Cur)
        /\ Step(updateScore(Start, JNum(i - 1, FALSE), DefaultValue, TRUE), 0)

(* the setup buttons; changing the inputs a round left behind counts *)
(* against Budget                                                   *)
AddPlayerSetup ==
    /\ ~setupHidden
    /\ Step(addPlayer(Start), IF Len(hist) = 1 THEN 0 ELSE 1)

RemovePlayerSetup ==
    \E i \in 1..Len(inputs) :
        /\ ~setupHidden
        /\ Step(removePlayer(Start, i), IF Len(hist) = 1 THEN 0 ELSE 1)

NextSetup ==
    \/ AddPlayerSetup
    \/ RemovePlayerSetup
    \/ StartGame
    \/ ScoreInTurn
    \/ BackClick
    \/ ConfirmQuit
    \/ NewGame

SpecSetup == InitSetup /\ [][NextSetup]_vars

----------------------------------------------------------------------------
(* One player on any hole of either course chooses any of the strokes the  *)
(* select offers; the holes before the current one took three strokes.     *)

ScoreTexts == {natString(n) : n \in SCORE_MIN..SCORE_MAX}

PlayedRow(h) == [j \in 1..HOLES_COUNT |-> IF j <= h THEN 3 ELSE null]

InitScoring ==
    /\ spent = 0
    /\ \E c \in Courses, h \in 0..(HOLES_COUNT - 1) :
           Is(InRound(c, h, TRUE, <<PlayerOf("Amy", PlayedRow(h))>>))

ChooseScore ==
    \E value \in ScoreTexts :
        /\ holePlay
        /\ Charged(updateScore(Start, JNum(0, FALSE), value, TRUE), 0)

NextScoring == ChooseScore

SpecScoring == InitScoring /\ [][NextScoring]_vars

----------------------------------------------------------------------------
(* The last hole of rounds of one to six players: each player in turn      *)
(* chooses a score, the round is finished, and the summary is shown.       *)

(* rows with the first 17 holes behind them *)
ParRow == [j \in 1..HOLES_COUNT |-> IF j < HOLES_COUNT THEN coursePars["dragon"][j] ELSE null]
AcesRow == [ParRow EXCEPT ![1] = 1, ![2] = 1]
(* a row with a slot that loadState emptied *)
GapRow == [ParRow EXCEPT ![3] = null]
LateRow == [j \in 1..HOLES_COUNT |-> IF j < HOLES_COUNT THEN 3 ELSE null]

FinalLists ==
    LET a == PlayerOf("A", ParRow)
        b == PlayerOf("B", AcesRow)
        c == PlayerOf("C", GapRow)
        d == PlayerOf("D", ParRow)
        e == PlayerOf("E", AcesRow)
        f == PlayerOf("F", LateRow)
    IN {<<a>>, <<a, d>>, <<f, b, a>>, <<a, b, c, d, e, f>>}

LastHoleTexts == {"1", "2", "4"}

InitSummary ==
    /\ spent = 0
    /\ \E c \in Courses, ps \in FinalLists : Is(InRound(c, HOLES_COUNT - 1, TRUE, ps))

(* the first player without a score on the last hole chooses one *)
ScoreLastHole ==
    \E i \in 1..Len(players), value \in LastHoleTexts :
        /\ holePlay /\ ~modal
        /\ slotIsNull(players[i], Cur)
        /\ \A j \in 1..(i - 1) : ~slotIsNull(players[j], Cur)
        /\ Step(updateScore(Start, JNum(i - 1, FALSE), value, TRUE), 0)

NextSummary ==
    \/ ScoreLastHole
    \/ NextClick
    \/ NewGame

SpecSummary == InitSummary /\ [][NextSummary]_vars

----------------------------------------------------------------------------
(* Properties *)

RoundState == <<currentCourse, players, currentHole, holeHalf, gameStarted>>

(* the snapshot of the current round state, as text *)
CurrentSnapshot == JsonText(SnapshotOf(Cur))

Unscored(p, h) == p.scores[h + 1] = null

SomeoneUnscored == \E i \in 1..Len(players) : Unscored(players[i], currentHole)

(* this step is a call of nextHole *)
NextHoleRuns == gameStarted /\ \E io \in BOOLEAN : Becomes(nextHole(Start, io))

(* C1: while a player has no score for the current hole, nextHole changes   *)
(* neither the hole, nor a score or total, nor the started flag, nor what  *)
(* is stored; once every player has one, it moves to the next hole, or to  *)
(* the summary from the last hole.                                         *)
C1_NextHoleGuard ==
    [][NextHoleRuns =>
          IF SomeoneUnscored
          THEN UNCHANGED <<RoundState, storage>>
          ELSE \/ /\ currentHole < HOLES_COUNT - 1
                  /\ gameStarted' /\ currentHole' = currentHole + 1
               \/ /\ currentHole = HOLES_COUNT - 1
                  /\ ~gameStarted' /\ summary']_vars

C1_Rejected ==
    /\ log = "Enter scores for all players"
    /\ gameStarted /\ currentHole = HOLES_COUNT - 1 /\ SomeoneUnscored
    /\ storage = CurrentSnapshot

(* C2: while a round is started or finished, every player has a score for  *)
(* every hole before the current one, also after the page was loaded again *)
(* from what the app stored; on the summary all 18 slots are scored.       *)
C2_ScoredBelowHole ==
    /\ (gameStarted \/ summary) =>
           \A i \in 1..Len(players) : \A h \in 0..(currentHole - 1) :
               ~Unscored(players[i], h)
    /\ summary =>
           \A i \in 1..Len(players) : \A h \in 0..(HOLES_COUNT - 1) :
               ~Unscored(players[i], h)

C2_ResumedAtLastHole ==
    /\ gameStarted /\ currentHole = HOLES_COUNT - 1
    /\ loaded.k = "load" /\ loaded.ret
    /\ Len(players) = 2

(* the claim's condition of rejection, on the number parseInt reads *)
IndexInRange(idx) == idx.t = "num" /\ ~idx.half /\ idx.n \in 0..(Len(players) - 1)
StrokesInRange(value) ==
    ~parseInt(value).nan /\ parseInt(value).n \in SCORE_MIN..SCORE_MAX

(* this step is the call updateScore(idx, value) *)
UpdateScoreRuns(idx, value) ==
    \E io \in BOOLEAN : Becomes(updateScore(Start, idx, value, io))

C4_RecordScoreFrame ==
    [][\A idx \in IndexInputs, value \in ValueInputs :
          (/\ gameStarted /\ holePlay
           /\ IndexInRange(idx) /\ StrokesInRange(value)
           /\ UpdateScoreRuns(idx, value))
              => LET p == idx.n + 1 IN
                 /\ players'[p].scores[currentHole + 1] = parseInt(value).n
                 /\ players'[p].total = TotalOf(players'[p].scores)
                 /\ ~writeFailed' => storage' = CurrentSnapshot'
                 /\ UNCHANGED <<currentHole, holeHalf, currentCourse, gameStarted>>
                 /\ Len(players') = Len(players)
                 /\ \A q \in 1..Len(players) :
                        /\ players'[q].name = players[q].name
                        /\ q # p => players'[q] = players[q]
                        /\ \A h \in 1..HOLES_COUNT :
                               (q # p \/ h # currentHole + 1)
                                   => players'[q].scores[h] = players[q].scores[h]]_vars

C4_ScoreRecorded ==
    /\ gameStarted /\ currentHole = 1 /\ Len(players) = 2
    /\ players[1].scores[2] = SCORE_MAX /\ players[1].total = SCORE_MAX + 3
    /\ players[2].scores[2] = null /\ players[2].total = 3
    /\ storage = CurrentSnapshot

(* C5: when the traversal that previousHole asked for runs, with the round *)
(* started on a hole after the first and no scorecard open, the round is   *)
(* on the hole before, no score or total has changed and the new hole is   *)
(* stored.                                                                 *)
C5_RetreatLands ==
    [][(/\ gameStarted /\ ~modal /\ currentHole > 0
        /\ hist[hidx].k = "game"
        /\ pending = 1 /\ pending' = 0 /\ loaded'.k = "no")
          => /\ gameStarted' /\ currentHole' = currentHole - 1
             /\ players' = players
             /\ ~writeFailed' => storage' = CurrentSnapshot']_vars

(* C6: whenever the round is started and the current history entry is a    *)
(* game entry, the hole of that entry is the current hole.                 *)
C6_EntryMatchesHole ==
    (gameStarted /\ hist[hidx].k = "game")
        => (hist[hidx].hole = currentHole /\ hist[hidx].half = holeHalf)

Restored == loadState(FreshPage(storage, <<PageEntry>>, 1, FALSE), TRUE)

(* C8: while the round is started and the last write did not fail, the     *)
(* stored snapshot is that of the current round state, and loadState on a  *)
(* fresh page gives back the course, the hole, the started flag and the    *)
(* players.                                                                *)
C8_StorageInSync ==
    (gameStarted /\ ~writeFailed)
        => /\ storage = CurrentSnapshot
           /\ Restored.loaded.ret
           /\ Restored.course = currentCourse
           /\ Restored.hole = currentHole /\ Restored.half = holeHalf
           /\ Restored.started = gameStarted
           /\ Restored.players = players

C8_InSyncAfterRetreat ==
    /\ gameStarted /\ ~writeFailed /\ Len(players) = 2
    /\ currentHole = HOLES_COUNT - 2 /\ hidx < Len(hist)
    /\ storage = CurrentSnapshot

(* the states the round trip is claimed for *)
ValidRound ==
    /\ currentCourse \in Courses
    /\ currentHole \in 0..(HOLES_COUNT - 1) /\ ~holeHalf
    /\ Len(players) \in 1..MAX_PLAYERS
    /\ \A i \in 1..Len(players) :
           /\ Len(players[i].name) \in 1..NAME_MAX
           /\ \A h \in 1..HOLES_COUNT :
                  players[i].scores[h] = null
                      \/ players[i].scores[h] \in SCORE_MIN..SCORE_MAX

(* loadState on a fresh page holding what saveState stores of this state *)
SavedAndLoaded ==
    loadState(FreshPage(saveState(Cur, TRUE).storage, <<PageEntry>>, 1, FALSE), TRUE)

(* C9: for a state with a known course, 1 to 6 players with names of 1 to  *)
(* 20 characters, scores null or in 1..11 and a hole in 0..17, loading     *)
(* what saveState stored gives the same course, hole, started flag,        *)
(* players in the same order with the same names and scores, each total    *)
(* the sum of the player's scored slots.                                   *)
C9_RoundTrip ==
    ValidRound =>
        /\ SavedAndLoaded.loaded.ret
        /\ SavedAndLoaded.course = currentCourse
        /\ SavedAndLoaded.hole = currentHole /\ ~SavedAndLoaded.half
        /\ SavedAndLoaded.started = gameStarted
        /\ Len(SavedAndLoaded.players) = Len(players)
        /\ \A i \in 1..Len(players) :
               /\ SavedAndLoaded.players[i].name = players[i].name
               /\ SavedAndLoaded.players[i].scores = players[i].scores
               /\ SavedAndLoaded.players[i].total = TotalOf(players[i].scores)

C9_SixPlayersReloaded ==
    /\ loaded.k = "load" /\ loaded.ret /\ storage = CurrentSnapshot
    /\ Len(players) = MAX_PLAYERS /\ ~gameStarted /\ currentHole = HOLES_COUNT - 1
    /\ players[2].name = LongName /\ players[2].scores[2] = SCORE_MAX

(* the three checks the claim names, on the stored text *)
ChecksPass(raw) ==
    /\ raw.k = "json"
    /\ Field(raw.v, "course").t = "str" /\ Field(raw.v, "course").s \in Courses
    /\ Field(raw.v, "players").t = "arr" /\ Len(Field(raw.v, "players").a) > 0
    /\ Field(raw.v, "hole").t = "num" /\ ~Field(raw.v, "hole").half
    /\ Field(raw.v, "hole").n \in 0..(HOLES_COUNT - 1)

(* C10: loadState accepts a stored value only if its course is known, its  *)
(* players are a non-empty list and its hole is an integer in 0..17; on    *)
(* any other snapshot, and on text that does not parse, it returns false,  *)
(* leaves the round state as the page set it and removes the entry.        *)
C10_LoadAcceptsOnlyValid ==
    loaded.k = "load" =>
        /\ loaded.ret => ChecksPass(loaded.raw)
        /\ (loaded.raw.k \in {"bad", "json"} /\ ~ChecksPass(loaded.raw))
               => /\ ~loaded.ret
                  /\ currentCourse = "dragon" /\ players = <<>>
                  /\ currentHole = 0 /\ ~holeHalf /\ ~gameStarted
                  /\ storage = NoItem

----------------------------------------------------------------------------
(* Loading tolerates bad score slots *)

LoadedNow == loaded.k = "load" /\ loaded.ret

StoredPlayers == Field(loaded.raw.v, "players").a

(* a stored player as saveState writes one, whatever its slots hold *)
WellFormedPlayer(p) ==
    /\ p.t = "obj"
    /\ Field(p, "name").t = "str" /\ Len(Field(p, "name").s) \in 1..NAME_MAX
    /\ Field(p, "scores").t = "arr" /\ Len(Field(p, "scores").a) = HOLES_COUNT

WellFormedSnapshot ==
    /\ LoadedNow
    /\ Field(loaded.raw.v, "hole").t = "num" /\ ~Field(loaded.raw.v, "hole").half
    /\ Field(loaded.raw.v, "hole").n \in 0..(HOLES_COUNT - 1)
    /\ \A i \in 1..Len(StoredPlayers) : WellFormedPlayer(StoredPlayers[i])

IntegerInRange(v) == v.t = "num" /\ ~v.half /\ v.n \in SCORE_MIN..SCORE_MAX

StoredSlot(i, h) == Field(StoredPlayers[i], "scores").a[h]

----------------------------------------------------------------------------
(* Back to the setup screen from the first hole *)

NamesOf(ps) == [i \in 1..Len(ps) |-> ps[i].name]

(* the Back button as rendered on hole 1, or a traversal to an earlier    *)
(* entry of the session history (which fires popstate), while hole 1 is  *)
(* played                                                                *)
RetreatAtFirstHole ==
    /\ gameStarted /\ holeIsZero(Cur) /\ ~modal
    /\ \E io \in BOOLEAN :
          \/ bar /\ barFirst /\ Becomes(goBackToSetup(Start, io))
          \/ hidx > 1 /\ Becomes(traverse(Start, -1, io))
          \/ pending > 0 /\ hidx > 1
                /\ Becomes(traverse([Start EXCEPT !.pending = pending - 1], -1, io))

(* C12: a retreat while hole 1 is played shows the setup screen again: the  *)
(* round is no longer started, the player list is untouched, the name      *)
(* inputs hold the players' names in order, and the stored snapshot is     *)
(* removed unless removeItem threw.                                        *)
C12_RetreatToSetup ==
    [][RetreatAtFirstHole =>
        /\ ~gameStarted' /\ ~setupHidden' /\ ~holePlay' /\ ~bar'
        /\ players' = players
        /\ inputs' = NamesOf(players)
        /\ storage' = NoItem \/ log' = "Failed to clear localStorage"]_vars

(* the browser's back button was used on hole 1 of a round started with a *)
(* typed name and an empty input                                          *)
C12_BackInSetup ==
    /\ ~gameStarted /\ ~setupHidden /\ ~finished
    /\ hidx = 1 /\ Len(hist) = 2
    /\ NamesOf(players) = <<"Amy", "Player 2">> /\ inputs = <<"Amy", "Player 2">>
    /\ storage = NoItem /\ log = ""

----------------------------------------------------------------------------
(* Quit and New Game *)

(* C13: in every reachable state quitGame() and newGame() lead to the same *)
(* state, and when removeItem does not throw that state has no stored      *)
(* snapshot, no players, started false, hole 0 and the default course.     *)
C13_QuitEqualsNewGame ==
    \A io \in BOOLEAN :
        LET q == quitGame(Start, io)
            n == newGame(Start, io) IN
        /\ q = n
        /\ io => /\ q.storage = NoItem
                 /\ q.players = <<>>
                 /\ ~q.started
                 /\ q.hole = 0 /\ ~q.half
                 /\ q.course = "dragon"

(* New Game was pressed on the summary of a finished round *)
C13_NewGameFromSummary ==
    /\ finished /\ ~summary /\ ~setupHidden
    /\ Len(hist) > 1 /\ hist[hidx] = PageEntry
    /\ players = <<>> /\ ~gameStarted /\ currentHole = 0
    /\ currentCourse = "dragon" /\ storage = NoItem

----------------------------------------------------------------------------
(* Starting a round *)

StartGameRuns == ~setupHidden /\ \E io \in BOOLEAN : Becomes(startGame(Start, io))

FreshPlayers(names) ==
    /\ Len(players') = Len(names)
    /\ \A i \in 1..Len(names) :
          /\ players'[i].name = playerName(names[i], i)
          /\ players'[i].scores = [h \in 1..HOLES_COUNT |-> null]
          /\ players'[i].total = 0

----------------------------------------------------------------------------
(* The number of players *)

AddPlayerRuns == ~setupHidden /\ Becomes(addPlayer(Start))

RemovePlayerRuns == ~setupHidden /\ \E i \in 1..Len(inputs) : Becomes(removePlayer(Start, i))

(* C15: addPlayer() leaves six name inputs as they are, removePlayer()     *)
(* leaves a single name input as it is, the setup screen always has 1 to 6 *)
(* inputs, and every started round has 1 to 6 players.                     *)
C15_OneToSixPlayers ==
    /\ [](Len(inputs) \in 1..MAX_PLAYERS)
    /\ [](gameStarted => Len(players) \in 1..MAX_PLAYERS)
    /\ [][((AddPlayerRuns /\ Len(inputs) >= MAX_PLAYERS) => inputs' = inputs)
           /\ ((RemovePlayerRuns /\ Len(inputs) = 1) => inputs' = inputs)]_vars

(* a seventh input was refused while a round of six was set up again *)
C15_SeventhRefused ==
    /\ ~setupHidden /\ Len(inputs) = MAX_PLAYERS
    /\ Len(players) = MAX_PLAYERS
    /\ log = "Maximum 6 players allowed"

----------------------------------------------------------------------------
(* The course of a started round *)

(* C16: while gameStarted holds, the click listener of a course button      *)
(* changes neither currentCourse nor the stored snapshot, whichever course  *)
(* the button stands for, and no step between two started states changes    *)
(* currentCourse.                                                           *)
C16_CourseFixedWhileStarted ==
    /\ [](gameStarted =>
            \A c \in Courses, io \in BOOLEAN :
                LET t == courseClick(Start, c, io) IN
                t.course = currentCourse /\ t.storage = storage /\ t.players = players)
    /\ [][(gameStarted /\ gameStarted') => currentCourse' = currentCourse]_vars

(* a round on the second course has reached its last hole; a click on the *)
(* first course's button changes nothing                                  *)
C16_KnightRoundUntouched ==
    /\ gameStarted /\ currentCourse = "knight" /\ currentHole = HOLES_COUNT - 1
    /\ storage = CurrentSnapshot
    /\ courseClick(Start, "dragon", TRUE) = Start

----------------------------------------------------------------------------
(* The par differential shown next to a player *)

(* the holes up to the current one that the player has scored *)
ScoredThrough(p) == {i \in 0..currentHole : p.scores[i + 1] # null}

RECURSIVE StrokesOver(_, _)
StrokesOver(p, holes) ==
    IF holes = {} THEN 0
    ELSE LET i == CHOOSE x \in holes : TRUE IN p.scores[i + 1] + StrokesOver(p, holes \ {i})

OneSetDifferential(p) ==
    LET diff == StrokesOver(p, ScoredThrough(p)) - parSum(coursePars[currentCourse], ScoredThrough(p)) IN
    IF ScoredThrough(p) = {} \/ diff = 0 THEN "E" ELSE signedText(diff)

(* C17: on the hole view, getParDifferential(player) is "E" when the player *)
(* has scored no hole up to the current one or when the strokes over those  *)
(* holes equal the pars over those holes, and otherwise the signed          *)
(* difference of the two sums.                                              *)
C17_DifferentialOverOneSet ==
    (holePlay /\ ~holeHalf) =>
        \A i \in 1..Len(players) : getParDifferential(Cur, players[i]) = OneSetDifferential(players[i])

----------------------------------------------------------------------------
(* The description of a score *)

Categories == {"hole-in-one", "eagle", "birdie", "par", "bogey", "double-bogey", "high-score"}

(* C18: the description of a score on the current hole has exactly one of  *)
(* the seven classes: hole-in-one exactly for one stroke; for more strokes *)
(* eagle exactly for two or more under par, birdie for one under, par for  *)
(* level, bogey for one over, double-bogey for two over, and high-score    *)
(* for three or more over.                                                 *)
C18_FirstMatchingCategory ==
    \A i \in 1..Len(players) :
        (holePlay /\ ~holeHalf /\ ~slotIsNull(players[i], Cur)) =>
            LET strokes == players[i].scores[currentHole + 1]
                diff == strokes - coursePars[currentCourse][currentHole + 1]
                class == holeDescription(Cur, players[i]).class IN
            /\ class \in Categories
            /\ class = "hole-in-one" <=> strokes = 1
            /\ class = "eagle" <=> (strokes # 1 /\ diff <= -2)
            /\ class = "birdie" <=> (strokes # 1 /\ diff = -1)
            /\ class = "par" <=> (strokes # 1 /\ diff = 0)
            /\ class = "bogey" <=> (strokes # 1 /\ diff = 1)
            /\ class = "double-bogey" <=> (strokes # 1 /\ diff = 2)
            /\ class = "high-score" <=> (strokes # 1 /\ diff >= 3)

(* one stroke on the par-4 hole: the eagle rule matches too *)
C18_AceOnParFour ==
    /\ holePlay /\ currentHole = HOLES_COUNT - 1
    /\ players[1].scores[HOLES_COUNT] = 1
    /\ coursePars[currentCourse][HOLES_COUNT] - 1 >= 2
    /\ holeDescription(Cur, players[1]).class = "hole-in-one"

----------------------------------------------------------------------------
(* The order of the leaderboard *)

(* card i shows player f[i] *)
ShowsPlayers(f) ==
    \A i \in 1..Len(players) :
        /\ leaderboardContent[i].name = players[f[i]].name
        /\ leaderboardContent[i].scores = players[f[i]].scores
        /\ leaderboardContent[i].total = players[f[i]].total

AscendingAndStable(f) ==
    \A i, j \in 1..Len(players) :
        i < j =>
            /\ leaderboardContent[i].total <= leaderboardContent[j].total
            /\ leaderboardContent[i].total = leaderboardContent[j].total => f[i] < f[j]

(* C19: on the summary the cards are the players, each once, in ascending  *)
(* order of total with players of equal total in the order of the player   *)
(* list, the announced winner is the player of the first card, and the     *)
(* step that builds the leaderboard leaves the player list as it was.      *)
C19_LeaderboardSorted ==
    /\ [](summary =>
            /\ Len(leaderboardContent) = Len(players)
            /\ \E f \in Permutations(1..Len(players)) : ShowsPlayers(f) /\ AscendingAndStable(f)
            /\ winnerAnnouncement.name = leaderboardContent[1].name
            /\ winnerAnnouncement.total = leaderboardContent[1].total)
    /\ [][(~summary /\ summary') => players' = players]_vars

(* six players finished; A, B, D and E tie at the top and are listed in  *)
(* the order of the player list, ahead of C, who was entered before D    *)
C19_TieKeepsListOrder ==
    /\ summary /\ Len(players) = MAX_PLAYERS
    /\ NamesOf(players) = <<"A", "B", "C", "D", "E", "F">>
    /\ NamesOf(leaderboardContent) = <<"A", "B", "D", "E", "C", "F">>
    /\ leaderboardContent[1].total = leaderboardContent[4].total
    /\ winnerAnnouncement.name = "A"

----------------------------------------------------------------------------
(* The achievements on a card *)

(* what the slots from hole hi on contribute, in hole order *)
RECURSIVE ListedFrom(_, _, _)
ListedFrom(scores, pars, hi) ==
    IF hi > HOLES_COUNT THEN <<>>
    ELSE (CASE scores[hi] = null -> <<>>
            [] scores[hi] = 1 /\ pars[hi] >= 3 -> <<"Hole in One", "Eagle">>
            [] scores[hi] = 1 -> <<"Hole in One">>
            [] scores[hi] - pars[hi] <= -2 -> <<"Eagle">>
            [] OTHER -> <<>>)
         \o ListedFrom(scores, pars, hi + 1)

(* C20: the achievements on a card of the summary are listed in hole order *)
(* over the 18 slots of the card: a slot of one stroke gives "Hole in One" *)
(* followed by "Eagle" when the par is 3 or more, any other scored slot at *)
(* least two under par gives "Eagle", an unscored slot gives nothing, and  *)
(* a repeated achievement is listed each time.                             *)
C20_AchievementsInHoleOrder ==
    summary =>
        \A i \in 1..Len(leaderboardContent) :
            leaderboardContent[i].achievements =
                ListedFrom(leaderboardContent[i].scores, coursePars[currentCourse], 1)

(* a card with aces on a par-2 and a par-3 hole, an unscored hole, and an *)
(* ace on the par-4 last hole                                             *)
C20_ThreeAcesTwoEagles ==
    /\ summary
    /\ \E i \in 1..Len(leaderboardContent) :
          /\ leaderboardContent[i].scores[1] = 1 /\ leaderboardContent[i].scores[2] = 1
          /\ leaderboardContent[i].scores[HOLES_COUNT] = 1
          /\ leaderboardContent[i].achievements =
                <<"Hole in One", "Hole in One", "Eagle", "Hole in One", "Eagle">>
    /\ \E i \in 1..Len(leaderboardContent) :
          /\ leaderboardContent[i].scores[3] = null
          /\ leaderboardContent[i].achievements = <<"Eagle">>

----------------------------------------------------------------------------
(* The running total *)

RECURSIVE SumScored(_, _)
SumScored(scores, h) ==
    IF h > Len(scores) THEN 0
    ELSE (IF scores[h] = null THEN 0 ELSE scores[h]) + SumScored(scores, h + 1)

(* C21: every player's total is the sum of the player's scored slots, also *)
(* right after loadState restored players from a stored value with totals  *)
(* of its own, and after a scored slot was given another score.            *)
C21_TotalIsSumOfSlots ==
    \A i \in 1..Len(players) : players[i].total = SumScored(players[i].scores, 1)

(* Bo was stored with total 99 and 11 strokes on hole 5; after the load Bo *)
(* chose 3 on hole 5, and the total is that of the slots 1 and 3           *)
C21_ReplacedAfterLoad ==
    /\ gameStarted /\ currentHole = 4
    /\ Len(players) = 1 /\ players[1].name = "Bo"
    /\ players[1].scores[5] = 3 /\ players[1].scores[6] = 1
    /\ players[1].total = 4

----------------------------------------------------------------------------
(* The score rows *)

(* C22: every player has exactly 18 score slots, each of them null or an   *)
(* integer from 1 to 11, whatever value the page was opened on.            *)
C22_EighteenValidSlots ==
    \A i \in 1..Len(players) :
        /\ Len(players[i].scores) = HOLES_COUNT
        /\ \A h \in 1..HOLES_COUNT :
              players[i].scores[h] = null \/ players[i].scores[h] \in SCORE_MIN..SCORE_MAX

(* five players were loaded from a list with a one-slot scores array, a    *)
(* null, an empty object and a string in it, and slots of 15, 0 and 2.5    *)
C22_OddListLoaded ==
    /\ LoadedNow /\ Len(players) = 5
    /\ StoredSlot(1, 1) = JNum(15, FALSE) /\ players[1].scores[1] = null
    /\ Len(Field(StoredPlayers[3], "scores").a) = 1
    /\ players[3].scores = [h \in 1..HOLES_COUNT |-> null]
    /\ players[5].scores = [h \in 1..HOLES_COUNT |-> null]

----------------------------------------------------------------------------
(* The range of the hole index *)

(* C23: currentHole is an integer from 0 to 17 in every state, whatever    *)
(* value the page was opened on.                                           *)
C23_HoleIndexInRange == ~holeHalf /\ currentHole \in 0..(HOLES_COUNT - 1)

----------------------------------------------------------------------------
(* A write to the store that throws *)

(* the state apart from the store and from what was written to the console *)
InMemory(t) ==
    [t EXCEPT !.storage = NoItem, !.writeFailed = FALSE,
              !.log = IF t.log \in FailureLogs THEN "" ELSE t.log]

(* the handler ends in the same state whether or not the store throws, and *)
(* a throw is not shown to the user                                        *)
SameInMemory(ok, thrown) ==
    /\ InMemory(ok) = InMemory(thrown)
    /\ thrown.log \notin ToastMessages \/ thrown.log = ok.log

(* C24: startGame, updateScore, nextHole and the popstate listener reach    *)
(* the same round state and the same page when the store throws as when it *)
(* does not, in every state in which they can run, and the failure is      *)
(* written to the console only.                                            *)
C24_WriteFailureKeepsTransition ==
    /\ ~setupHidden => SameInMemory(startGame(Start, TRUE), startGame(Start, FALSE))
    /\ holePlay =>
          \A idx \in IndexInputs, value \in ValueInputs :
              SameInMemory(updateScore(Start, idx, value, TRUE),
                           updateScore(Start, idx, value, FALSE))
    /\ bar => SameInMemory(nextHole(Start, TRUE), nextHole(Start, FALSE))
    /\ hidx > 1 => SameInMemory(traverse(Start, -1, TRUE), traverse(Start, -1, FALSE))

(* the write of Next threw on hole 1: the round is on hole 2 all the same, *)
(* with the store still holding hole 1                                     *)
C24_AdvancedUnsaved ==
    /\ log = "Failed to save game state" /\ writeFailed
    /\ gameStarted /\ holePlay /\ currentHole = 1
    /\ storage.k = "json" /\ Field(storage.v, "hole") = JNum(0, FALSE)
    /\ hist[hidx] = GameEntry(1, FALSE)

----------------------------------------------------------------------------
(* Opening and closing the scorecards *)

(* the scorecards are opened, closed by the close button or Escape, or the *)
(* history leaves their entry                                              *)
ScorecardsStep ==
    \/ gameStarted /\ ~modal /\ Becomes(showScorecards(Start))
    \/ modal /\ Becomes(hideScorecards(Start))
    \/ /\ hist[hidx] = ModalEntry
       /\ \E io \in BOOLEAN :
             \/ Becomes(traverse(Start, -1, io))
             \/ pending > 0 /\ Becomes(traverse([Start EXCEPT !.pending = pending - 1], -1, io))

(* C25: opening the scorecards, closing them, and the traversal that takes  *)
(* the history off their entry each leave the course, the players, the     *)
(* hole, gameStarted and the stored snapshot as they were.                 *)
C25_ScorecardsLeaveRound ==
    [][ScorecardsStep => UNCHANGED <<RoundState, storage>>]_vars

----------------------------------------------------------------------------
(* Retreats asked for in the page, and the traversals they queue *)

(* n calls of previousHole() (the Previous button or ArrowLeft) before   *)
(* the first queued traversal runs                                       *)
RECURSIVE retreatRequests(_, _)
retreatRequests(s, n) ==
    IF n = 0 THEN s ELSE retreatRequests(keydown(s, "ArrowLeft", TRUE), n - 1)

(* the queued traversals run one after the other *)
RECURSIVE queuedTraversals(_, _)
queuedTraversals(s, io) ==
    IF s.pending = 0 THEN s
    ELSE queuedTraversals(traverse([s EXCEPT !.pending = s.pending - 1], -1, io), io)

(* the round is played on a hole after the first, nothing is queued, and *)
(* the session history holds the entries of the holes played             *)
RetreatPossible ==
    /\ gameStarted /\ holePlay /\ ~modal /\ ~holeHalf
    /\ currentHole > 0 /\ pending = 0
    /\ \A i \in 1..Len(hist) : hist[i] # ModalEntry

(* C26: retreats asked for with the Previous button or ArrowLeft on a    *)
(* hole after the first, one or several before the first popstate event  *)
(* is delivered, keep the round started and the storage filled, and the  *)
(* hole index ends lower by one for each request it has room for.        *)
C26_RetreatsStayInRound ==
    RetreatPossible =>
        \A n \in 1..MaxPending, io \in BOOLEAN :
            hidx > n =>
                LET t == queuedTraversals(retreatRequests(Start, n), io) IN
                /\ t.started
                /\ storage # NoItem => t.storage # NoItem
                /\ n <= currentHole => t.hole = currentHole - n

----------------------------------------------------------------------------
(* A removeItem that throws *)

(* the setup screen, respectively the summary, is shown and no round is  *)
(* started                                                               *)
InSetup(t) == ~t.started /\ ~t.setupHidden /\ ~t.holePlay /\ ~t.summary
InSummary(t) == ~t.started /\ t.summary /\ ~t.holePlay /\ ~t.bar

(* every player has a score on the last hole, which is being played *)
LastHoleScored ==
    /\ gameStarted /\ bar /\ ~holeHalf /\ currentHole = HOLES_COUNT - 1
    /\ \A i \in 1..Len(players) : ~slotIsNull(players[i], Cur)

(* C27: whether removeItem works or throws, quitting and starting a new  *)
(* game end on the setup screen, the retreat from hole 1 ends on the     *)
(* setup screen, and finishing the round ends on the summary.            *)
C27_RemoveFailureKeepsTransition ==
    \A io \in BOOLEAN :
        /\ holePlay => InSetup(quitGame(Start, io))
        /\ summary => InSetup(newGame(Start, io))
        /\ (gameStarted /\ bar /\ barFirst) => InSetup(goBackToSetup(Start, io))
        /\ LastHoleScored => InSummary(nextHole(Start, io))

----------------------------------------------------------------------------
(* The order of the storage write and the rendering of the hole view *)

(* every saveState() of the handler came before every renderHole() *)
PersistThenRender(t) ==
    \A i, j \in 1..Len(t.effects) :
        (t.effects[i] = "save" /\ t.effects[j] = "render") => i < j

(* the handler both rendered the hole view and wrote the storage *)
RendersAndPersists(t) ==
    \E i, j \in 1..Len(t.effects) : t.effects[i] = "save" /\ t.effects[j] = "render"

(* C28: startGame, updateScore, nextHole and the retreat write the       *)
(* storage before they render the hole view.                             *)
C28_PersistBeforeRender ==
    \A io \in BOOLEAN :
        /\ ~setupHidden => PersistThenRender(startGame(Start, io))
        /\ holePlay =>
              \A idx \in IndexInputs, value \in ValueInputs :
                  PersistThenRender(updateScore(Start, idx, value, io))
        /\ bar => PersistThenRender(nextHole(Start, io))
        /\ hidx > 1 => PersistThenRender(traverse(Start, -1, io))

----------------------------------------------------------------------------
(* What the storage holds *)

(* C29: a stored snapshot has gameStarted true, and loading it on a      *)
(* fresh page never leaves the page with a round that is not started.    *)
C29_StoredSnapshotStarted ==
    storage.k = "json" =>
        /\ Field(storage.v, "gameStarted") = JBool(TRUE)
        /\ loadAccepts(storage) => Restored.started

----------------------------------------------------------------------------
(* The ranks of the scorecards *)

(* the 1-based place of player i when the list is put in ascending order *)
(* of total, players of equal total keeping their list order             *)
StablePlace(ps, i) ==
    1 + Cardinality({j \in 1..Len(ps) : ps[j].total < ps[i].total})
      + Cardinality({j \in 1..(i - 1) : ps[j].total = ps[i].total})

DistinctNames(ps) ==
    \A i, j \in 1..Len(ps) : ps[i].name = ps[j].name => i = j

(* C30: the rank in each scorecard's heading is the player's place in    *)
(* the stable ascending order of totals, so the ranks of n players are   *)
(* the numbers 1..n, each once, whatever the names and totals.           *)
C30_RanksArePlaces ==
    (gameStarted /\ ~modal) =>
        LET t == showScorecards(Start)
            cards == t.scorecardModalContent IN
        t.modal =>
            /\ Len(cards) = Len(players)
            /\ \A i \in 1..Len(cards) : cards[i].rank = StablePlace(players, i)
            /\ {cards[i].rank : i \in 1..Len(cards)} = 1..Len(players)

====
